---- MODULE Spec2Model ----
(***************************************************************************)
(* Model of boosty_archiver.py: the archive pipeline of one creator        *)
(* account (archive_user, handle_posts and the four download handlers),    *)
(* the dedup ledger (sqlite table "archive") and the files on disk, over   *)
(* consecutive process runs, plus the pure selector best_video.            *)
(***************************************************************************)
EXTENDS Integers, Sequences, FiniteSets, TLC

(* ------------------------------ bounds -------------------------------- *)
\* pages the listing API can serve before it must set isLast
MaxPages == 3
\* process runs (invocations of main) of one behaviour
MaxRuns == 2
\* server-class errors the server answers to one user/listing/file/image/audio fetch
MaxRetry == 2
\* server-class errors the server answers to one video fetch
MaxVideoRetry == 6
\* items of the post text handed to clear_post_text
MaxItems == 2
\* lines of the existing link report
MaxLines == 2
\* links collected in one run
MaxLinks == 2
\* characters of a user handle
MaxUserLen == 3
\* characters of a file name handed to clear_filename
MaxNameLen == 4
\* inputs of one invocation of main
MaxInputs == 2
\* posts of the page handle_posts is called with
MaxPosts == 3

(* --------------------------- program constants ------------------------ *)
\* sleep(5.0) before every retry
BACKOFF == 5
\* handle_video: "if retry >= 5 and failover_host"
FAILOVER_RETRY == 5

VIDEO_QUALITY_ORDER ==
    <<"ultra_hd", "quad_hd", "full_hd", "high", "medium", "tiny", "low", "lowest">>

\* labels of PostDataVideoURLsType used by the model: the eight ordered ones
\* and two that VIDEO_QUALITY_ORDER does not list
VideoLabels ==
    {"ultra_hd", "quad_hd", "full_hd", "high", "medium", "tiny", "low", "lowest",
     "hls", "dash"}

\* the value best_video returns for "no selection": (None, None)
None == "None"

\* the archived user (match.group("user"))
User == "u"

(* ------------------------------ upstream ------------------------------ *)
\* a mapping without keys
EmptyUrls == [l \in {} |-> ""]

\* playerUrls of a video record as the API sends them: label -> url, "" for a
\* rendition the video does not have
PlayerUrlChoices ==
    { [l \in {"ultra_hd", "hls"} |-> ""],
      [l \in {"hls"} |-> "H"],
      [l \in {"ultra_hd", "medium", "low"} |->
            IF l = "ultra_hd" THEN "" ELSE IF l = "medium" THEN "M" ELSE "L"] }

\* failoverHost of a video record (NotRequired)
FailoverChoices == {None, "vd234"}

\* the authority of a rendition URL: a bare host name ("https://vd123.okcdn.ru/?...")
\* or a host name with a port ("https://vd123.okcdn.ru:443/?...")
UrlForms == {"bare", "port"}

DownloadTypes == {"file", "image", "ok_video", "audio_file"}

\* the upstream datasets: two download items of types x and y, both in post 1
\* (layout "same") or in post 1 and post 3 (layout "split")
NextType(x) ==
    IF x = "file" THEN "image"
    ELSE IF x = "image" THEN "ok_video"
    ELSE IF x = "ok_video" THEN "audio_file"
    ELSE "file"

Datasets == {[x |-> x, y |-> NextType(x), layout |-> l] :
                x \in DownloadTypes, l \in {"same", "split"}}

\* the posts of listing page p of dataset ds (Posts: int_id, hasAccess, data);
\* data lists the "type" of each content item
PagePosts(ds, p) ==
    IF p = 1
    THEN << [int_id |-> 2, hasAccess |-> FALSE, data |-> <<"file">>],
            [int_id |-> 1, hasAccess |-> TRUE,
             data |-> IF ds.layout = "same"
                      THEN <<"text", ds.x, "link", ds.y>>
                      ELSE <<"text", ds.x, "link">>] >>
    ELSE IF p = 2
    THEN << [int_id |-> 3, hasAccess |-> TRUE,
             data |-> IF ds.layout = "same"
                      THEN <<"sticker", "text">>
                      ELSE <<"sticker", ds.y>>] >>
    ELSE << [int_id |-> p + 1, hasAccess |-> TRUE, data |-> <<"text">>] >>

\* extra.offset of the response of page p: an opaque cursor
Offset(p) == <<"offset", p>>
\* the first-page URL has no offset parameter
NoOffset == << >>
\* the page the server answers a listing request with
ServerPage(off) == IF off = NoOffset THEN 1 ELSE off[2] + 1

\* metadata of a downloadable record: present, present but null, or key absent
MetaChoices == {"ok", "null", "missing"}

(* ------------------------------- state -------------------------------- *)
VARIABLES
    upstream,         \* the dataset the API serves
    use_db,           \* main option --use-db: a ledger is configured
    force_redownload, \* main option --force-redownload
    run,              \* number of the current process run (0: none yet)
    pc,               \* where the single thread of control is
    walk,             \* how the walk of the current run stands
    force,            \* force_redownload parameter of the current archive_user call
    page,             \* archive_user: number of the page being requested
    offset,           \* archive_user: cursor read from the last page
    extra,            \* posts["extra"] of the page being handled
    posts_data,       \* posts["data"] of the page being handled
    pi,               \* handle_posts: index of the post being handled
    dl_tasks,         \* handle_posts: the download tasks still to run
    retry,            \* server-class errors answered to the pending fetch
    lastReq,          \* the request issued last
    lastResp,         \* how the response handled last ended
    total,            \* ctx.total
    completed,        \* ctx.progress completed posts
    ledger,           \* rows of table archive
    disk,             \* the asset files: entry -> "none" | "partial" | "full"
    complete,         \* entries whose bytes were ever written to the end
    opened,           \* entry whose file the last step opened for writing
    listReqs,         \* listing requests issued while every listing answer was a success
    listErr,          \* some listing request of this run got a non-success
    all_links,        \* archive_user: int_id of the post of every link collected
    post_links,       \* the rows of <user>/_post_links.txt (by the int_id of their post)
    saved,            \* _post_links.txt was written in this run
    sidecars,         \* int_id of the posts whose text file this run has written
    urls,             \* best_video: the argument
    sel,              \* best_video: the result
    raw_text,         \* parse_text: the argument
    parsed,           \* parse_text: how the call ended
    post_text,        \* clear_post_text: the argument
    text_out,         \* clear_post_text: how the call ended
    old_lines,        \* report block: the lines of the existing _post_links.txt
    run_links,        \* report block: all_links when the block is reached
    new_rows,         \* report block: the rows written to _post_links.txt
    written,          \* report block: the file has been written
    key_args,         \* entry: two (user, int_id, incremental_id)
    keys,             \* entry: per handler, the keys it derives for the two
    filename,         \* clear_filename: the argument
    cleared,          \* clear_filename: the result
    cleared_again,    \* clear_filename: the result for the result
    called,           \* the entry or clear_filename call has been made
    inputs,           \* main: the argument urls
    output_dir,       \* main option --output_dir (None: not given)
    cookies_exist,    \* the cookies file exists
    token_known,      \* a token was given or the token file exists
    at,               \* main: number of the input handed to archive_user last
    stage,            \* archive_user: where the call for that input stands
    requested,        \* (input number, user) of every user request issued
    dirs,             \* the directories that exist
    files,            \* the files written: directory, user, kind
    user_sq,          \* archive_user: signed_query, from the user record
    post_sq,          \* handle_posts: post.get("signedQuery") of each post of the page
    signed_query,     \* handle_posts: the parameter and local signed_query
    used_sq           \* the signed_query the tasks of each post handled were built with

pipeVars ==
    <<upstream, use_db, force_redownload, run, pc, walk, force, page, offset, extra,
      posts_data, pi, dl_tasks, retry, lastReq, lastResp, total, completed,
      ledger, disk, complete, opened, listReqs, listErr,
      all_links, post_links, saved, sidecars>>
bvVars == <<urls, sel>>
textVars == <<raw_text, parsed, post_text, text_out>>
linkVars == <<old_lines, run_links, new_rows, written>>
keyVars == <<key_args, keys>>
nameVars == <<filename, cleared, cleared_again>>
mainVars ==
    <<inputs, output_dir, cookies_exist, token_known, at, stage, requested, dirs, files>>
sqVars == <<user_sq, post_sq, signed_query, used_sq>>
pureVars == <<bvVars, textVars, linkVars, keyVars, nameVars, called, mainVars, sqVars>>
vars == <<pipeVars, pureVars>>

\* entry = f"boosty_{user}_{int_id}_{incremental_id}"
Entry(user, int_id, incremental_id) == <<"boosty", user, int_id, incremental_id>>
NoEntry == << >>

Entries == {Entry(User, 1, 0), Entry(User, 1, 1), Entry(User, 3, 0)}

NoReq == [kind |-> "none", offset |-> NoOffset, entry |-> NoEntry,
          host |-> "", url |-> "", waited |-> 0, failopen |-> FALSE]
UserReq(w) == [NoReq EXCEPT !.kind = "user", !.waited = w]
FirstReq(w) == [NoReq EXCEPT !.kind = "first", !.waited = w]
\* API_GET_POSTS.format(user=user, offset=offset)
NextReq(off, w) == [NoReq EXCEPT !.kind = "next", !.offset = off, !.waited = w]

NoExtra == [offset |-> NoOffset, isLast |-> FALSE]

PipeInit ==
    /\ upstream \in Datasets
    /\ use_db \in BOOLEAN
    /\ force_redownload \in BOOLEAN
    /\ run = 0
    /\ pc = "idle"
    /\ walk = "none"
    /\ force = FALSE
    /\ page = 0
    /\ offset = NoOffset
    /\ extra = NoExtra
    /\ posts_data = << >>
    /\ pi = 0
    /\ dl_tasks = << >>
    /\ retry = 0
    /\ lastReq = NoReq
    /\ lastResp = "none"
    /\ total = 0
    /\ completed = 0
    /\ ledger = {}
    /\ disk = [e \in Entries |-> "none"]
    /\ complete = {}
    /\ opened = NoEntry
    /\ listReqs = 0
    /\ listErr = FALSE
    /\ all_links = << >>
    /\ post_links = {}
    /\ saved = FALSE
    /\ sidecars = {}

\* a call that has not been made yet
Unset == [raises |-> FALSE, value |-> [t |-> "unset"]]

\* no call of best_video pending
BvIdle == urls = EmptyUrls /\ sel = << >>

\* no call of parse_text or clear_post_text pending
TextIdle ==
    /\ raw_text = [kind |-> "falsy"]
    /\ parsed = Unset
    /\ post_text = << >>
    /\ text_out = Unset

\* the pipeline at rest with one fixed configuration
PipeIdle ==
    /\ PipeInit
    /\ upstream = [x |-> "file", y |-> "image", layout |-> "same"]
    /\ ~use_db /\ ~force_redownload

\* the report block not entered
LinksIdle ==
    /\ old_lines = << >>
    /\ run_links = << >>
    /\ new_rows = << >>
    /\ written = FALSE

\* no key derivation pending
KeysIdle == key_args = << >> /\ keys = << >>

\* no call of clear_filename pending
NameIdle == filename = << >> /\ cleared = << >> /\ cleared_again = << >>

\* main not started on a list of inputs
MainIdle ==
    /\ inputs = << >>
    /\ output_dir = None
    /\ cookies_exist = TRUE
    /\ token_known = TRUE
    /\ at = 0
    /\ stage = "start"
    /\ requested = {}
    /\ dirs = {}
    /\ files = {}

\* handle_posts not called on a page of signed queries
SqIdle ==
    /\ user_sq = "?t"
    /\ post_sq = << >>
    /\ signed_query = "?t"
    /\ used_sq = << >>

\* none of the pure functions in use
PureIdle ==
    /\ BvIdle /\ TextIdle /\ LinksIdle /\ KeysIdle /\ NameIdle /\ called = FALSE
    /\ MainIdle
    /\ SqIdle

Init ==
    /\ PipeInit
    /\ PureIdle

(* ------------------------ main and the output paths -------------------- *)
\* an input is a sequence of pieces: maximal runs of the characters of
\* [\w\-\.] (words) and what stands between them
Words == {"u", "https", "boosty.to", "other.site"}
BareName == <<"u">>
BoostyUrl == <<"https", "://", "boosty.to", "/", "u">>
ForeignUrl == <<"https", "://", "other.site", "/", "u">>
NoWordUrl == <<"/", "u">>
InputUrls == {BareName, BoostyUrl, ForeignUrl, NoWordUrl}

\* USER_CHECK.match(url) and match.group("user"): the domain group is optional,
\* so when the text does not start with the boosty.to prefix followed by a
\* word, the user group takes the first word of the text; no match only when
\* the text does not start with a word
USER_CHECK(url) ==
    IF Len(url) >= 5 /\ SubSeq(url, 1, 4) = <<"https", "://", "boosty.to", "/">>
          /\ url[5] \in Words
    THEN url[5]
    ELSE IF url # << >> /\ url[1] \in Words THEN url[1] ELSE None

\* Path(user)
CwdPath(user) == <<".", user>>
\* output_path = Path(output_dir or ".") / user
OutputPath(user) == <<IF output_dir = None THEN "." ELSE output_dir, user>>

File(dir, user, kind) == [dir |-> dir, user |-> user, kind |-> kind]

\* main hands the next input to archive_user, which returns before any request
\* when the input does not match, the cookies file is missing, or no token is
\* known, and otherwise issues the user request
ArchiveUser ==
    /\ stage \in {"start", "returned"}
    /\ at < Len(inputs)
    /\ at' = at + 1
    /\ LET user == USER_CHECK(inputs[at + 1]) IN
         IF user = None \/ ~cookies_exist \/ ~token_known
         THEN stage' = "returned" /\ UNCHANGED requested
         ELSE stage' = "user" /\ requested' = requested \cup {<<at + 1, user>>}
    /\ UNCHANGED <<inputs, output_dir, cookies_exist, token_known, dirs, files>>
    /\ UNCHANGED <<pipeVars, bvVars, textVars, linkVars, keyVars, nameVars, called, sqVars>>

\* the answer to the user request: a non-success returns, a transport error is
\* not caught, a success creates output_path and starts the walk
UserAnswer ==
    /\ stage = "user"
    /\ \/ stage' = "returned" /\ UNCHANGED dirs
       \/ stage' = "crashed" /\ UNCHANGED dirs
       \/ /\ stage' = "walk"
          /\ dirs' = dirs \cup {OutputPath(USER_CHECK(inputs[at]))}
    /\ UNCHANGED <<inputs, output_dir, cookies_exist, token_known, at, requested, files>>
    /\ UNCHANGED <<pipeVars, bvVars, textVars, linkVars, keyVars, nameVars, called, sqVars>>

\* handle_posts on one post: the text goes to (Path(user) / name).open("w"),
\* which raises FileNotFoundError when that directory does not exist, then the
\* download tasks write under the output_dir they were handed, output_path
WritePost ==
    /\ stage = "walk"
    /\ \E has_text \in BOOLEAN, has_asset \in BOOLEAN :
         LET user == USER_CHECK(inputs[at])
             sidecar == IF has_text THEN {File(CwdPath(user), user, "sidecar")} ELSE {}
             asset == IF has_asset THEN {File(OutputPath(user), user, "asset")} ELSE {}
         IN  /\ has_text \/ has_asset
             /\ IF has_text /\ CwdPath(user) \notin dirs
                THEN stage' = "crashed" /\ UNCHANGED files
                ELSE stage' = "walk" /\ files' = files \cup sidecar \cup asset
    /\ UNCHANGED <<inputs, output_dir, cookies_exist, token_known, at, requested, dirs>>
    /\ UNCHANGED <<pipeVars, bvVars, textVars, linkVars, keyVars, nameVars, called, sqVars>>

\* the end of the walk: with links collected, Path(user) / "_post_links.txt"
\* is opened for writing
EndWalk ==
    /\ stage = "walk"
    /\ \E has_links \in BOOLEAN :
         LET user == USER_CHECK(inputs[at]) IN
         IF ~has_links
         THEN stage' = "returned" /\ UNCHANGED files
         ELSE IF CwdPath(user) \notin dirs
         THEN stage' = "crashed" /\ UNCHANGED files
         ELSE /\ stage' = "returned"
              /\ files' = files \cup {File(CwdPath(user), user, "report")}
    /\ UNCHANGED <<inputs, output_dir, cookies_exist, token_known, at, requested, dirs>>
    /\ UNCHANGED <<pipeVars, bvVars, textVars, linkVars, keyVars, nameVars, called, sqVars>>

(* ------------------------------ archive_user -------------------------- *)
\* main: a new process run calls archive_user, which (credentials present)
\* opens the client and the ledger and issues the user request
main ==
    /\ \/ pc = "idle"
       \/ pc \in {"done", "crashed"} /\ run < MaxRuns
    /\ run' = run + 1
    /\ force' = force_redownload
    /\ walk' = "running"
    /\ pc' = "user"
    /\ lastReq' = UserReq(0)
    /\ lastResp' = "none"
    /\ retry' = 0
    /\ page' = 0
    /\ offset' = NoOffset
    /\ extra' = NoExtra
    /\ posts_data' = << >>
    /\ pi' = 0
    /\ dl_tasks' = << >>
    /\ total' = 0
    /\ completed' = 0
    /\ opened' = NoEntry
    /\ listReqs' = 0
    /\ listErr' = FALSE
    /\ all_links' = << >>
    /\ saved' = FALSE
    /\ sidecars' = {}
    /\ UNCHANGED <<upstream, use_db, force_redownload, ledger, disk, complete,
                   post_links>>
    /\ UNCHANGED pureVars

\* the call archive_user makes to itself after a server-class error on the user
\* request or on page 1: force_redownload is not among its arguments, so the
\* callee runs with the default False, and it starts again at the user request
RetryArchiveUser ==
    /\ retry < MaxRetry
    /\ retry' = retry + 1
    /\ force' = FALSE
    /\ pc' = "user"
    /\ lastReq' = UserReq(BACKOFF)
    /\ lastResp' = "5xx"

\* an exception no handler catches ends the process
Crash(resp) ==
    /\ pc' = "crashed"
    /\ walk' = "crashed"
    /\ lastResp' = resp

\* mutant: the non-success response is raised as an exception
AbortRaises(how, resp) == Crash(resp)

\* "return" out of archive_user from inside the with block
Abort(how, resp) ==
    /\ pc' = "done"
    /\ walk' = how
    /\ lastResp' = resp

\* what a step that opens no file and touches no ledger leaves alone
Untouched == UNCHANGED <<upstream, use_db, force_redownload, run, ledger, disk, complete>>
                /\ opened' = NoEntry

\* what a step outside handle_posts and the report block leaves alone
NoFiles == UNCHANGED <<all_links, post_links, saved, sidecars>>

\* the count of listing requests of a walk whose listing answers all succeeded
Count(ok) == /\ listErr' = (listErr \/ ~ok)
             /\ listReqs' = IF listErr \/ ~ok THEN 0 ELSE listReqs

\* r = client.get(API_GET_USER...) answered
UserResponse ==
    /\ pc = "user"
    /\ \/ /\ RetryArchiveUser
          /\ UNCHANGED <<walk, page, listReqs>>
       \/ /\ Abort("usererr", "fail")
          /\ UNCHANGED <<force, retry, lastReq, page, listReqs>>
       \/ /\ Crash("transport")
          /\ UNCHANGED <<force, retry, lastReq, page, listReqs>>
       \/ /\ pc' = "first"
          /\ lastReq' = FirstReq(0)
          /\ lastResp' = "ok"
          /\ page' = 1
          /\ listReqs' = IF listErr THEN 0 ELSE listReqs + 1
          /\ UNCHANGED <<force, retry, walk>>
    /\ UNCHANGED <<offset, extra, posts_data, pi, dl_tasks, total, completed, listErr>>
    /\ Untouched
    /\ NoFiles
    /\ UNCHANGED pureVars

\* mutant: the posts of the page are not added to ctx.total
TakePageUncounted ==
    LET sp == ServerPage(lastReq.offset) IN
    \E last \in BOOLEAN :
        /\ sp >= MaxPages => last
        /\ posts_data' = PagePosts(upstream, sp)
        /\ extra' = [offset |-> Offset(sp), isLast |-> last]
        /\ total' = total
        /\ pc' = "posts"
        /\ pi' = 1
        /\ retry' = 0
        /\ lastResp' = "ok"

\* a success answer to a listing request: posts = r.json(), ctx.total grows by
\* the page's post count and handle_posts starts on its first post
TakePage ==
    LET sp == ServerPage(lastReq.offset) IN
    \E last \in BOOLEAN :
        /\ sp >= MaxPages => last
        /\ posts_data' = PagePosts(upstream, sp)
        /\ extra' = [offset |-> Offset(sp), isLast |-> last]
        /\ total' = total + Len(PagePosts(upstream, sp))
        /\ pc' = "posts"
        /\ pi' = 1
        /\ retry' = 0
        /\ lastResp' = "ok"

\* r = client.get(API_GET_POSTS_FIRST...) answered
FirstPageResponse ==
    /\ pc = "first"
    /\ \/ /\ RetryArchiveUser
          /\ Count(FALSE)
          /\ UNCHANGED <<walk, extra, posts_data, pi, total>>
       \/ /\ Abort("aborted", "fail")
          /\ Count(FALSE)
          /\ UNCHANGED <<force, retry, lastReq, extra, posts_data, pi, total>>
       \/ /\ Crash("transport")
          /\ Count(FALSE)
          /\ UNCHANGED <<force, retry, lastReq, extra, posts_data, pi, total>>
       \/ /\ TakePage
          /\ Count(TRUE)
          /\ UNCHANGED <<force, lastReq, walk>>
    /\ UNCHANGED <<page, offset, dl_tasks, completed>>
    /\ Untouched
    /\ NoFiles
    /\ UNCHANGED pureVars

\* mutant: the cursor is not refreshed after a page
StaleOffset == IF offset = NoOffset THEN extra.offset ELSE offset

\* the cursor archive_user keeps after a page: offset = posts["extra"]["offset"]
NextOffset == extra.offset

\* mutant: the walker reads isLast only from page 2 on
is_past_page_late == extra.isLast /\ page > 1

\* is_past_page = posts["extra"]["isLast"]
is_past_page == extra.isLast

\* after the with block: "if all_links", the rows of the existing file that are
\* not among the collected ones are added to them and the file is written anew
SaveLinks ==
    IF all_links # << >>
    THEN /\ post_links' = post_links \cup {all_links[i] : i \in 1..Len(all_links)}
         /\ saved' = TRUE
    ELSE UNCHANGED <<post_links, saved>>

\* handle_posts has returned: read the cursor and isLast; on the last page
\* return (page 1, from inside the with block) or leave the loop and reach the
\* report block, else request the next page
PageDone ==
    /\ pc = "posts"
    /\ pi > Len(posts_data)
    /\ offset' = NextOffset
    /\ page' = IF page = 1 /\ is_past_page THEN page ELSE page + 1
    /\ IF is_past_page
       THEN /\ pc' = "done"
            /\ walk' = "last"
            /\ IF page = 1 THEN UNCHANGED <<post_links, saved>> ELSE SaveLinks
            /\ UNCHANGED <<lastReq, lastResp, listReqs>>
       ELSE /\ pc' = "next"
            /\ lastReq' = NextReq(offset', 0)
            /\ lastResp' = "pending"
            /\ listReqs' = IF listErr THEN 0 ELSE listReqs + 1
            /\ UNCHANGED <<walk, post_links, saved>>
    /\ UNCHANGED <<force, extra, posts_data, pi, dl_tasks, retry, total,
                   completed, listErr, all_links, sidecars>>
    /\ Untouched
    /\ UNCHANGED pureVars

\* r = client.get(API_GET_POSTS...) answered, inside "while not is_past_page"
NextPageResponse ==
    /\ pc = "next"
    /\ \/ /\ retry < MaxRetry
          /\ retry' = retry + 1
          /\ lastReq' = NextReq(offset, BACKOFF)
          /\ lastResp' = "5xx"
          /\ Count(FALSE)
          /\ UNCHANGED <<pc, walk, extra, posts_data, pi, total>>
       \/ /\ Abort("aborted", "fail")
          /\ Count(FALSE)
          /\ UNCHANGED <<retry, lastReq, extra, posts_data, pi, total>>
       \/ /\ Crash("transport")
          /\ Count(FALSE)
          /\ UNCHANGED <<retry, lastReq, extra, posts_data, pi, total>>
       \/ /\ TakePage
          /\ Count(TRUE)
          /\ UNCHANGED <<lastReq, walk>>
    /\ UNCHANGED <<force, page, offset, dl_tasks, completed>>
    /\ Untouched
    /\ NoFiles
    /\ UNCHANGED pureVars

(* ------------------------------ best_video ---------------------------- *)
\* mutant: the order is scanned from its end
RECURSIVE WorstFrom(_, _)
WorstFrom(i, us) ==
    IF i < 1
    THEN <<None, None>>
    ELSE IF VIDEO_QUALITY_ORDER[i] \in DOMAIN us
         THEN <<VIDEO_QUALITY_ORDER[i], us[VIDEO_QUALITY_ORDER[i]]>>
         ELSE WorstFrom(i - 1, us)

worst_video(us) == WorstFrom(Len(VIDEO_QUALITY_ORDER), us)

RECURSIVE BestFrom(_, _)
\* for q in VIDEO_QUALITY_ORDER[i..]: if q in urls: return (q, urls[q])
BestFrom(i, us) ==
    IF i > Len(VIDEO_QUALITY_ORDER)
    THEN <<None, None>>
    ELSE IF VIDEO_QUALITY_ORDER[i] \in DOMAIN us
         THEN <<VIDEO_QUALITY_ORDER[i], us[VIDEO_QUALITY_ORDER[i]]>>
         ELSE BestFrom(i + 1, us)

best_video(us) == BestFrom(1, us)

\* mutant: every rendition is kept
KeepUrls(pu) == pu

\* handle_posts: {u["type"]: u["url"] for u in d["playerUrls"] if u["url"]}
FilterUrls(pu) == [l \in {k \in DOMAIN pu : pu[k] # ""} |-> pu[l]]

(* ----------------------- parse_text, clear_post_text ------------------ *)
\* strings are sequences of characters
LF == "\n"

\* values orjson.loads can give, as far as parse_text tells them apart
Str(cs) == [t |-> "str", s |-> cs]
IntVal == [t |-> "int"]

Returns(v) == [raises |-> FALSE, value |-> v]
Raises(e) == [raises |-> TRUE, value |-> [t |-> e]]

\* item bodies and link targets of the model
Bodies == {<< >>, <<"H", "i">>}
LinkUrl == <<"u", "r", "l">>

\* the "content" strings of the model, by what orjson.loads makes of them:
\*   falsy        ""  (parse_text then decodes '["", "unstyled", []]')
\*   undecodable  not JSON
\*   array        a JSON array: empty, or with a first element that is a string
\*                or a number
\*   object       a JSON object such as {}
\*   number       a JSON number such as 5
Payloads ==
    {[kind |-> "falsy"], [kind |-> "undecodable"], [kind |-> "object"],
     [kind |-> "number"], [kind |-> "array", elems |-> << >>],
     [kind |-> "array", elems |-> <<IntVal>>]}
    \cup {[kind |-> "array", elems |-> <<Str(b)>>] : b \in Bodies}

\* modificator: Literal["", "BLOCK_END"] | str
Modificators == {"", "BLOCK_END", "ITALIC"}

Items ==
    {[type |-> "text", content |-> c, modificator |-> m] :
        c \in Payloads, m \in Modificators}
    \cup {[type |-> "link", content |-> c, url |-> LinkUrl] : c \in Payloads}

\* orjson.loads(raw_text or '["", "unstyled", []]')[0] under
\* except (orjson.JSONDecodeError, IndexError): return ""
parse_text(raw) ==
    IF raw.kind = "falsy" THEN Returns(Str(<< >>))
    ELSE IF raw.kind = "undecodable" THEN Returns(Str(<< >>))
    ELSE IF raw.kind = "array"
         THEN IF raw.elems = << >>
              THEN Returns(Str(<< >>))
              ELSE Returns(raw.elems[1])
    ELSE IF raw.kind = "object" THEN Raises("KeyError")
    ELSE Raises("TypeError")

\* mutant: a link always contributes its target
LinkPartAlways(d) == Returns(Str(d.url))

\* d["url"] if parse_text(d["content"]) != "" else ""
LinkPart(d) ==
    LET r == parse_text(d.content) IN
    IF r.raises THEN r
    ELSE IF r.value # Str(<< >>) THEN Returns(Str(d.url))
    ELSE Returns(Str(<< >>))

\* parse_text(d["content"]) if d["type"] == "text" and d["modificator"] == ""
\* else "\n"
TextPart(d) ==
    IF d.type = "text" /\ d.modificator = ""
    THEN parse_text(d.content)
    ELSE Returns(Str(<<LF>>))

\* what the generator expression yields for item d
Part(d) == IF d.type = "link" THEN LinkPart(d) ELSE TextPart(d)

RECURSIVE Join(_, _, _)
\* "".join(...): the parts are taken in order; an exception of parse_text
\* leaves the call at once, a part that is no string makes join raise TypeError
Join(items, i, acc) ==
    IF i > Len(items)
    THEN Returns(Str(acc))
    ELSE LET r == Part(items[i]) IN
         IF r.raises THEN r
         ELSE IF r.value.t # "str" THEN Raises("TypeError")
         ELSE Join(items, i + 1, acc \o r.value.s)

clear_post_text(items) == Join(items, 1, << >>)

(* --------------------------- the link report -------------------------- *)
\* str(int_id) of the model's posts, as sequences of characters
Pids == {<<"1">>, <<"2">>, <<"1", "0">>}

\* (str(int_id), post url, link url); the post url goes with the post, except
\* for one row that differs from another in its post url only
LinkRows ==
    {<<pid, "p" , l>> : pid \in Pids, l \in {"lX", "lY"}} \cup {<<<<"1">>, "q", "lX">>}

\* a row whose link url is the empty string
EmptyUrlRow == <<<<"1">>, "p", "">>

\* the characters of a url: none for the empty string, otherwise one piece of
\* text without white space
Chars(u) == IF u = "" THEN << >> ELSE <<u>>
Text(cs) == IF cs = << >> THEN "" ELSE cs[1]

\* f"{pid}\t{purl}\t{lurl}\n": a line is the sequence of the character runs
\* between its tabs, up to its newline
WriteLine(row) == <<row[1], Chars(row[2]), Chars(row[3])>>

\* the lines of a report file: the line written for a row, or a blank line
FileLines == {WriteLine(row) : row \in LinkRows \cup {EmptyUrlRow}} \cup {<< << >> >>}

RECURSIVE LStripLine(_)
LStripLine(fs) ==
    IF fs = << >> THEN << >>
    ELSE IF Head(fs) = << >> THEN LStripLine(Tail(fs)) ELSE fs

RECURSIVE RStripLine(_)
RStripLine(fs) ==
    IF fs = << >> THEN << >>
    ELSE IF fs[Len(fs)] = << >> THEN RStripLine(SubSeq(fs, 1, Len(fs) - 1)) ELSE fs

\* line.strip(): the newline goes, and so does every tab that has only tabs
\* between it and an end of the line
StripLine(fs) == LStripLine(RStripLine(fs))

\* ord() of the characters of a post sequence number
Ord(c) == IF c = "0" THEN 48 ELSE IF c = "1" THEN 49 ELSE 50

RECURSIVE StrLess(_, _)
\* Python's a < b on strings
StrLess(a, b) ==
    IF b = << >> THEN FALSE
    ELSE IF a = << >> THEN TRUE
    ELSE IF Ord(Head(a)) # Ord(Head(b)) THEN Ord(Head(a)) < Ord(Head(b))
    ELSE StrLess(Tail(a), Tail(b))

\* mutant: the keys are compared as numbers (digit strings without leading
\* zeros: the shorter one is the smaller)
IntLess(a, b) == Len(a) < Len(b) \/ (Len(a) = Len(b) /\ StrLess(a, b))

\* the order of sorted(all_links, key=lambda x: x[0])
KeyLess(a, b) == StrLess(a, b)

\* the existence loop: some collected row equals (pid, purl, lurl) in all fields
InLinks(row, links) ==
    \E i \in 1..Len(links) :
        links[i][1] = row[1] /\ links[i][2] = row[2] /\ links[i][3] = row[3]

RECURSIVE MergeLines(_, _, _)
\* "for line in f": a line that is blank after strip() is passed over, and so
\* is one that line.split("\t", maxsplit=3) does not split into three fields
\* (ValueError); a row that no collected row equals is appended
MergeLines(lines, i, links) ==
    IF i > Len(lines)
    THEN links
    ELSE LET fs == StripLine(lines[i])
             row == <<fs[1], Text(fs[2]), Text(fs[3])>>
         IN  IF Len(fs) # 3
             THEN MergeLines(lines, i + 1, links)
             ELSE IF InLinks(row, links)
                  THEN MergeLines(lines, i + 1, links)
                  ELSE MergeLines(lines, i + 1, Append(links, row))

RECURSIVE InsertRow(_, _)
\* row goes behind every row of the sorted sequence whose key is not greater
InsertRow(row, rows) ==
    IF rows = << >> THEN <<row>>
    ELSE IF KeyLess(row[1], Head(rows)[1])
         THEN <<row>> \o rows
         ELSE <<Head(rows)>> \o InsertRow(row, Tail(rows))

RECURSIVE Sorted(_, _, _)
\* sorted(...) is stable: rows of equal key keep their order
Sorted(links, i, acc) ==
    IF i > Len(links) THEN acc ELSE Sorted(links, i + 1, InsertRow(links[i], acc))

\* the rows f.writelines puts into the file
ReportRows(lines, links) == Sorted(MergeLines(lines, 1, links), 1, << >>)

(* ------------------------------ IdentityKey --------------------------- *)
\* characters a user handle can have ([\w\-\.]+): a letter, the underscore, a digit
UserChars == {"a", "_", "1"}
Users == UNION {[1..n -> UserChars] : n \in 1..MaxUserLen}

\* int_id and incremental_id of the model: one and two digits
IdValues == {1, 11}

DigitChars == <<"0", "1", "2", "3", "4", "5", "6", "7", "8", "9">>

RECURSIVE Decimal(_)
\* str(n) of a natural number
Decimal(n) ==
    IF n < 10
    THEN <<DigitChars[n + 1]>>
    ELSE Decimal(n \div 10) \o <<DigitChars[(n % 10) + 1]>>

\* mutant: the last separator is left out
entry_unseparated(user, int_id, incremental_id) ==
    <<"b", "o", "o", "s", "t", "y", "_">> \o user \o <<"_">>
        \o Decimal(int_id) \o Decimal(incremental_id)

\* f"boosty_{user}_{int_id}_{incremental_id}"
entry(user, int_id, incremental_id) ==
    <<"b", "o", "o", "s", "t", "y", "_">> \o user \o <<"_">>
        \o Decimal(int_id) \o <<"_">> \o Decimal(incremental_id)

Handlers == {"handle_file", "handle_image", "handle_video", "handle_audio"}

\* the entry each handler derives: the four f-strings are the same expression
HandlerEntry(h, a) == entry(a[1], a[2], a[3])

(* ------------------------------ clear_filename ------------------------ *)
\* characters of the model's file names: space, dot, a letter, a forbidden
\* character and two control characters (U+0001 and U+001B)
SOLIDUS == "/"
BIG_SOLIDUS == "FRACTION-SLASH"
CTRL == "SOH"
ESC == "ESC"
NameChars == {" ", ".", "a", SOLIDUS, CTRL, ESC}

\* FILENAME_CONTROLS = [\000-\031]: the escapes are octal, the class ends at
\* U+0019, so U+0001 is in it and U+001B is not
InControlClass(c) == c = CTRL

RECURSIVE LStrip(_, _)
LStrip(cs, drop) ==
    IF cs # << >> /\ Head(cs) \in drop THEN LStrip(Tail(cs), drop) ELSE cs

RECURSIVE RStrip(_, _)
RStrip(cs, drop) ==
    IF cs # << >> /\ cs[Len(cs)] \in drop
    THEN RStrip(SubSeq(cs, 1, Len(cs) - 1), drop)
    ELSE cs

\* str.strip(): whitespace off both ends; str.strip("."): dots off both ends
Strip(cs, drop) == RStrip(LStrip(cs, drop), drop)

RECURSIVE MapChars(_, _)
\* the FILENAME_REPLACEMENTS loop, then FILENAME_CONTROLS.sub("", ...)
MapChars(cs, i) ==
    IF i > Len(cs) THEN << >>
    ELSE (IF cs[i] = SOLIDUS THEN <<BIG_SOLIDUS>>
          ELSE IF InControlClass(cs[i]) THEN << >>
          ELSE <<cs[i]>>) \o MapChars(cs, i + 1)

\* filename.strip().strip("."), the replacements, the control characters
clear_filename(cs) == MapChars(Strip(Strip(cs, {" "}), {"."}), 1)

(* ------------------------------ handle_posts -------------------------- *)
HandlerOf(type) ==
    IF type = "file" THEN "handle_file"
    ELSE IF type = "image" THEN "handle_image"
    ELSE IF type = "ok_video" THEN "handle_video"
    ELSE "handle_audio"

\* the partial(...) appended for item i of a post: present says whether the
\* size/dimension arguments are not None
Task(int_id, type, incremental_id, meta, pu, fh, form) ==
    [handler |-> HandlerOf(type),
     int_id |-> int_id,
     incremental_id |-> incremental_id,
     present |-> (meta = "ok"),
     urls |-> IF type = "ok_video" THEN FilterUrls(pu) ELSE EmptyUrls,
     failover_host |-> IF type = "ok_video" THEN fh ELSE None,
     form |-> IF type = "ok_video" THEN form ELSE "bare"]

RECURSIVE ClassifyCountsAll(_, _, _, _, _, _, _)
\* mutant: every item takes the next incremental_id
ClassifyCountsAll(post, i, incremental_id, meta, pu, fh, form) ==
    IF i > Len(post.data)
    THEN << >>
    ELSE IF post.data[i] \in DownloadTypes
         THEN <<Task(post.int_id, post.data[i], incremental_id, meta[i], pu, fh, form)>>
              \o ClassifyCountsAll(post, i + 1, incremental_id + 1, meta, pu, fh, form)
         ELSE ClassifyCountsAll(post, i + 1, incremental_id + 1, meta, pu, fh, form)

RECURSIVE Classify(_, _, _, _, _, _, _)
\* "for d in data": a download item appends a task and takes the next
\* incremental_id; text, link and unsupported types take none
Classify(post, i, incremental_id, meta, pu, fh, form) ==
    IF i > Len(post.data)
    THEN << >>
    ELSE IF post.data[i] \in DownloadTypes
         THEN <<Task(post.int_id, post.data[i], incremental_id, meta[i], pu, fh, form)>>
              \o Classify(post, i + 1, incremental_id + 1, meta, pu, fh, form)
         ELSE Classify(post, i + 1, incremental_id, meta, pu, fh, form)

RECURSIVE Links(_, _)
\* "for d in data": every link item puts (str(int_id), post url, d["url"]) at the
\* left end of all_links
Links(post, i) ==
    IF i > Len(post.data)
    THEN << >>
    ELSE IF post.data[i] = "link"
         THEN Links(post, i + 1) \o <<post.int_id>>
         ELSE Links(post, i + 1)

\* cleared_post_text is not empty: the post has a text item (the bodies of the
\* model's text items are not empty, those of its links are)
HasText(post) == \E i \in 1..Len(post.data) : post.data[i] = "text"

\* d["size"] of a file record whose key is absent raises KeyError; image, video
\* and audio records are read with d.get(...)
ClassifyRaises(post, meta) ==
    \E i \in 1..Len(post.data) : post.data[i] = "file" /\ meta[i] = "missing"

\* the records the API can send for the items of a post: metadata per download
\* item, playerUrls, failoverHost and the URL form of its video
RecordChoices(post) ==
    LET types == {post.data[i] : i \in 1..Len(post.data)} IN
    {[meta |-> m, pu |-> pu, fh |-> fh, form |-> form] :
        m \in {mm \in [1..Len(post.data) -> MetaChoices] :
                    \A i \in 1..Len(post.data) :
                        post.data[i] \notin DownloadTypes => mm[i] = "ok"},
        pu \in IF "ok_video" \in types THEN PlayerUrlChoices ELSE {EmptyUrls},
        fh \in IF "ok_video" \in types THEN FailoverChoices ELSE {None},
        form \in IF "ok_video" \in types THEN UrlForms ELSE {"bare"}}

\* mutant: the access flag is not looked at
NoAccessIgnored(post) == FALSE

\* "if not has_access"
NoAccess(post) == ~post.hasAccess

\* one iteration of "for post in posts" up to the task loop
HandlePost ==
    /\ pc = "posts"
    /\ pi <= Len(posts_data)
    /\ LET post == posts_data[pi] IN
       IF NoAccess(post)
       THEN /\ total' = total - 1
            /\ pi' = pi + 1
            /\ UNCHANGED <<pc, walk, dl_tasks, lastResp, all_links, sidecars>>
       ELSE \E rec \in RecordChoices(post) :
            /\ IF ClassifyRaises(post, rec.meta)
               THEN /\ Crash("keyerror")
                    /\ UNCHANGED <<dl_tasks, all_links, sidecars>>
               ELSE /\ dl_tasks' = Classify(post, 1, 0, rec.meta, rec.pu, rec.fh, rec.form)
                    /\ all_links' = Links(post, 1) \o all_links
                    /\ sidecars' = IF HasText(post)
                                   THEN sidecars \cup {post.int_id} ELSE sidecars
                    /\ pc' = "tasks"
                    /\ UNCHANGED <<walk, lastResp>>
            /\ UNCHANGED <<total, pi>>
    /\ UNCHANGED <<force, page, offset, extra, posts_data, retry, lastReq, completed,
                   listReqs, listErr, post_links, saved>>
    /\ Untouched
    /\ UNCHANGED pureVars

(* ------------------------------ the handlers -------------------------- *)
TaskEntry(t) == Entry(User, t.int_id, t.incremental_id)

AssetReq(e, host, w, failopen) ==
    [kind |-> "asset", offset |-> NoOffset, entry |-> e, host |-> host,
     url |-> "", waited |-> w, failopen |-> failopen]

\* mutant: a handler that returns ends the task loop of the post
ReturnEndsPost ==
    /\ pc' = "posts"
    /\ dl_tasks' = Tail(dl_tasks)
    /\ retry' = 0

\* the handler returns: the task loop goes on with the next task
Return ==
    /\ pc' = "tasks"
    /\ dl_tasks' = Tail(dl_tasks)
    /\ retry' = 0

\* mutant: the ledger is never consulted
LedgerNeverHit(e, dberr) == FALSE

\* CHECK_ENTRY under suppress(ValueError, sqlite3.Error): consulted only when
\* not forcing and a ledger is configured; a raised error counts as "not found"
LedgerHit(e, dberr) == ~force /\ use_db /\ ~dberr /\ e \in ledger

\* handle_file's "elif": without a ledger, a file of the expected size is there
FileOnDisk(t) ==
    /\ t.handler = "handle_file"
    /\ ~force /\ ~use_db
    /\ disk[TaskEntry(t)] = "full"

\* re.sub(r"(?<=https:\/\/)[\w.\-]+(?=/)", failover_host, url) replaces the run
\* of word characters, dots and hyphens that stands between "https://" and "/":
\* with a port after the host name nothing matches and the URL stays as it is
HostMatches(form) == form = "bare"

\* handle_video: the host requested on attempt number r
VideoHost(t, r) ==
    IF r >= FAILOVER_RETRY /\ t.failover_host # None /\ HostMatches(t.form)
    THEN t.failover_host
    ELSE "primary"

\* quality, url = best_video(urls); "if not url or not quality"
NoSelection(t) ==
    LET selected == best_video(t.urls) IN
    selected[1] = None \/ selected[2] = None \/ selected[2] = ""

\* the handler returns without a request
Skip(why) == Return /\ lastResp' = why /\ UNCHANGED lastReq

\* a handler from its first line to the request it issues or to its return,
\* called from the task loop (r = 0, w = 0) or by itself after a server-class
\* error (w = BACKOFF; handle_video passes retry + 1)
Call(t, r, w) ==
    IF ~t.present
    THEN Skip("deleted")
    ELSE \E dberr \in (IF ~force /\ use_db THEN BOOLEAN ELSE {FALSE}) :
         IF LedgerHit(TaskEntry(t), dberr)
         THEN Skip("indb")
         ELSE IF FileOnDisk(t)
         THEN Skip("ondisk")
         ELSE IF t.handler = "handle_video" /\ NoSelection(t)
         THEN Skip("noquality")
         ELSE /\ pc' = "stream"
              /\ retry' = r
              /\ lastReq' = IF t.handler = "handle_video"
                            THEN [AssetReq(TaskEntry(t), VideoHost(t, r), w, dberr)
                                    EXCEPT !.url = best_video(t.urls)[2]]
                            ELSE AssetReq(TaskEntry(t), "cdn", w, dberr)
              /\ lastResp' = IF w = 0 THEN "pending" ELSE "5xx"
              /\ UNCHANGED dl_tasks

\* "for task in dl_tasks: task()", then ctx.progress.advance(ctx.posts)
RunTask ==
    /\ pc = "tasks"
    /\ IF dl_tasks = << >>
       THEN /\ completed' = completed + 1
            /\ pi' = pi + 1
            /\ pc' = "posts"
            /\ UNCHANGED <<dl_tasks, retry, lastReq, lastResp>>
       ELSE /\ Call(Head(dl_tasks), 0, 0)
            /\ UNCHANGED <<completed, pi>>
    /\ UNCHANGED <<walk, force, page, offset, extra, posts_data, total,
                   listReqs, listErr>>
    /\ Untouched
    /\ NoFiles
    /\ UNCHANGED pureVars

\* file and audio open the target for writing before they read the response;
\* image and video read Content-Length and the first chunk first
OpensFirst(t) == t.handler \in {"handle_file", "handle_audio"}

\* image/video, after the first chunk, without a ledger: the target exists with
\* st_size == size (image) or st_size > 0 (video)
SniffedOnDisk(t) ==
    /\ ~force /\ ~use_db
    /\ \/ t.handler = "handle_image" /\ disk[TaskEntry(t)] = "full"
       \/ t.handler = "handle_video" /\ disk[TaskEntry(t)] \in {"partial", "full"}

RetryCap(t) == IF t.handler = "handle_video" THEN MaxVideoRetry ELSE MaxRetry

\* path.open("wb"): the file is truncated and written from byte zero
OpenWb(e, content) ==
    /\ disk' = [disk EXCEPT ![e] = content]
    /\ opened' = e

\* INSERT_ENTRY under suppress(sqlite3.Error), only with a ledger configured
Record(e, dberr) ==
    IF use_db /\ ~dberr THEN ledger' = ledger \cup {e} ELSE UNCHANGED ledger

\* how "with db_conn as cur, suppress(sqlite3.Error)" around the INSERT and
\* cur.commit() can end: normally; with an error raised inside, which suppress
\* swallows; or with the database still locked when the connection, entered
\* first and so left last, commits again on the way out of the with statement:
\* that sqlite3.OperationalError is raised outside suppress
InsertOutcomes == IF use_db THEN {"ok", "raised", "locked"} ELSE {"ok"}

\* every chunk was written: the with/try block is left normally and the handler
\* reaches its last statement
Finalize(e) ==
    /\ OpenWb(e, "full")
    /\ complete' = complete \cup {e}
    /\ \E outcome \in InsertOutcomes :
          IF outcome = "locked"
          THEN /\ Crash("dblocked")
               /\ UNCHANGED <<ledger, dl_tasks, retry>>
          ELSE /\ Record(e, outcome = "raised")
               /\ lastResp' = IF outcome = "raised" THEN "ok_unrecorded" ELSE "ok"
               /\ Return
               /\ UNCHANGED walk

\* stream.is_server_error: sleep(5.0), then the handler calls itself and returns
ServerError(t) ==
    /\ retry < RetryCap(t)
    /\ Call(t, retry + 1, BACKOFF)
    /\ opened' = NoEntry
    /\ UNCHANGED <<walk, ledger, disk, complete>>

\* mutant: the non-success response is raised as an exception
NotSuccessRaises(t) ==
    /\ Crash("fail")
    /\ opened' = NoEntry
    /\ UNCHANGED <<dl_tasks, retry, lastReq, ledger, disk, complete>>

\* not stream.is_success: inspect and return
NotSuccess(t) ==
    /\ lastResp' = "fail"
    /\ Return
    /\ opened' = NoEntry
    /\ UNCHANGED <<walk, lastReq, ledger, disk, complete>>

\* the request raises (timeout, network, protocol error) before any body byte
\* arrives: the except clause returns
RequestRaises(t) ==
    /\ lastResp' = "transport"
    /\ Return
    /\ opened' = NoEntry
    /\ UNCHANGED <<walk, lastReq, ledger, disk, complete>>

\* success without a Content-Length header: stream.headers["Content-Length"]
\* raises KeyError, which no clause catches (file and audio have opened the
\* target by then)
NoContentLength(t) ==
    /\ Crash("nocl")
    /\ IF OpensFirst(t)
       THEN OpenWb(TaskEntry(t), "partial")
       ELSE opened' = NoEntry /\ UNCHANGED disk
    /\ UNCHANGED <<dl_tasks, retry, lastReq, ledger, complete>>

\* success with no chunk at all: next(iterator) raises StopIteration in
\* handle_image and handle_video
EmptyBody(t) ==
    /\ ~OpensFirst(t)
    /\ Crash("empty")
    /\ opened' = NoEntry
    /\ UNCHANGED <<dl_tasks, retry, lastReq, ledger, disk, complete>>

\* mutant: the except clause does not return, so the handler falls through to
\* its INSERT
BodyBreaksThenRecords(t) ==
    /\ lastResp' = "trunc"
    /\ Return
    /\ OpenWb(TaskEntry(t), "partial")
    /\ ledger' = IF use_db THEN ledger \cup {TaskEntry(t)} ELSE ledger
    /\ UNCHANGED <<walk, lastReq, complete>>

\* success, then the body breaks off after its first chunk: the except clause
\* returns, what was written stays
BodyBreaks(t) ==
    /\ lastResp' = "trunc"
    /\ Return
    /\ IF ~OpensFirst(t) /\ SniffedOnDisk(t)
       THEN opened' = NoEntry /\ UNCHANGED disk
       ELSE OpenWb(TaskEntry(t), "partial")
    /\ UNCHANGED <<walk, lastReq, ledger, complete>>

\* success and the body arrives whole
BodyWhole(t) ==
    /\ IF ~OpensFirst(t) /\ SniffedOnDisk(t)
       THEN /\ Return
            /\ lastResp' = "skipped"
            /\ opened' = NoEntry
            /\ UNCHANGED <<walk, ledger, disk, complete>>
       ELSE Finalize(TaskEntry(t))
    /\ UNCHANGED lastReq

\* the response to client.stream("GET", ...) of the running handler
StreamResponse ==
    /\ pc = "stream"
    /\ \/ ServerError(Head(dl_tasks))
       \/ NotSuccess(Head(dl_tasks))
       \/ RequestRaises(Head(dl_tasks))
       \/ NoContentLength(Head(dl_tasks))
       \/ EmptyBody(Head(dl_tasks))
       \/ BodyBreaks(Head(dl_tasks))
       \/ BodyWhole(Head(dl_tasks))
    /\ UNCHANGED <<upstream, use_db, force_redownload, run, force, page, offset,
                   extra, posts_data, pi, total, completed, listReqs, listErr>>
    /\ NoFiles
    /\ UNCHANGED pureVars

(* ------------------------------ specifications ------------------------ *)
Next ==
    \/ main
    \/ UserResponse
    \/ FirstPageResponse
    \/ HandlePost
    \/ RunTask
    \/ StreamResponse
    \/ PageDone
    \/ NextPageResponse

Spec == Init /\ [][Next]_vars

\* best_video on every mapping from a set of labels to one of two URLs
UrlValues == {"A", "B"}

InitBV ==
    /\ PipeIdle /\ MainIdle /\ SqIdle
    /\ TextIdle /\ LinksIdle /\ KeysIdle /\ NameIdle /\ called = FALSE
    /\ sel = << >>
    /\ urls \in UNION {[ls -> UrlValues] : ls \in SUBSET VideoLabels}

SelectBest ==
    /\ sel = << >>
    /\ sel' = best_video(urls)
    /\ UNCHANGED <<pipeVars, mainVars, sqVars, urls, textVars, linkVars, keyVars, nameVars, called>>

NextBV == SelectBest

SpecBV == InitBV /\ [][NextBV]_vars

\* parse_text on every content string, clear_post_text on every sequence of at
\* most MaxItems items
InitText ==
    /\ PipeIdle /\ MainIdle /\ SqIdle
    /\ BvIdle /\ LinksIdle /\ KeysIdle /\ NameIdle /\ called = FALSE
    /\ raw_text \in Payloads
    /\ parsed = Unset
    /\ post_text \in UNION {[1..n -> Items] : n \in 0..MaxItems}
    /\ text_out = Unset

ParseText ==
    /\ parsed = Unset
    /\ parsed' = parse_text(raw_text)
    /\ UNCHANGED <<pipeVars, mainVars, sqVars, bvVars, linkVars, keyVars, nameVars, called,
                   raw_text, post_text, text_out>>

ClearPostText ==
    /\ text_out = Unset
    /\ text_out' = clear_post_text(post_text)
    /\ UNCHANGED <<pipeVars, mainVars, sqVars, bvVars, linkVars, keyVars, nameVars, called,
                   raw_text, parsed, post_text>>

NextText == ParseText \/ ClearPostText

SpecText == InitText /\ [][NextText]_vars

\* the report block on every existing file of at most MaxLines lines and every
\* non-empty all_links of at most MaxLinks rows
InitLinks ==
    /\ PipeIdle /\ MainIdle /\ SqIdle
    /\ BvIdle /\ TextIdle /\ KeysIdle /\ NameIdle /\ called = FALSE
    /\ old_lines \in UNION {[1..n -> FileLines] : n \in 0..MaxLines}
    /\ run_links \in UNION {[1..n -> LinkRows] : n \in 1..MaxLinks}
    /\ new_rows = << >>
    /\ written = FALSE

WriteReport ==
    /\ ~written
    /\ written' = TRUE
    /\ new_rows' = ReportRows(old_lines, run_links)
    /\ UNCHANGED <<pipeVars, mainVars, sqVars, bvVars, textVars, keyVars, nameVars, called,
                   old_lines, run_links>>

NextLinks == WriteReport

SpecLinks == InitLinks /\ [][NextLinks]_vars

\* the key derivation of the four handlers on every pair of
\* (user, int_id, incremental_id)
InitKeys ==
    /\ PipeIdle /\ MainIdle /\ SqIdle
    /\ BvIdle /\ TextIdle /\ LinksIdle /\ NameIdle /\ called = FALSE
    /\ key_args \in (Users \X IdValues \X IdValues) \X (Users \X IdValues \X IdValues)
    /\ keys = << >>

DeriveKeys ==
    /\ ~called
    /\ called' = TRUE
    /\ keys' = [h \in Handlers |->
                    <<HandlerEntry(h, key_args[1]), HandlerEntry(h, key_args[2])>>]
    /\ UNCHANGED <<pipeVars, mainVars, sqVars, bvVars, textVars, linkVars, nameVars, key_args>>

NextKeys == DeriveKeys

SpecKeys == InitKeys /\ [][NextKeys]_vars

\* clear_filename on every name of at most MaxNameLen characters
InitName ==
    /\ PipeIdle /\ MainIdle /\ SqIdle
    /\ BvIdle /\ TextIdle /\ LinksIdle /\ KeysIdle /\ called = FALSE
    /\ filename \in UNION {[1..n -> NameChars] : n \in 0..MaxNameLen}
    /\ cleared = << >>
    /\ cleared_again = << >>

ClearFilename ==
    /\ ~called
    /\ called' = TRUE
    /\ cleared' = clear_filename(filename)
    /\ cleared_again' = clear_filename(clear_filename(filename))
    /\ UNCHANGED <<pipeVars, mainVars, sqVars, bvVars, textVars, linkVars, keyVars, filename>>

NextName == ClearFilename

SpecName == InitName /\ [][NextName]_vars

\* main on every list of at most MaxInputs inputs, with and without
\* --output_dir, credentials, and a directory ./u left by an earlier run
InitMain ==
    /\ PipeIdle /\ SqIdle
    /\ BvIdle /\ TextIdle /\ LinksIdle /\ KeysIdle /\ NameIdle /\ called = FALSE
    /\ inputs \in UNION {[1..n -> InputUrls] : n \in 1..MaxInputs}
    /\ output_dir \in {None, "out"}
    /\ cookies_exist \in BOOLEAN
    /\ token_known \in BOOLEAN
    /\ at = 0
    /\ stage = "start"
    /\ requested = {}
    /\ dirs \in SUBSET {CwdPath("u")}
    /\ files = {}

NextMain ==
    \/ ArchiveUser
    \/ UserAnswer
    \/ WritePost
    \/ EndWalk

SpecMain == InitMain /\ [][NextMain]_vars

\* the walk with a server that may answer a later listing request with a
\* server-class error any number of times. The loop "while not is_past_page"
\* keeps no count: once the model's count of server errors stands at
\* MaxRetry, sleep(5.0) and the "continue" that re-issues the request are two
\* steps between the same two states.
ServerErrorAgain ==
    /\ pc = "next"
    /\ retry = MaxRetry
    /\ pc' = "sleep"
    /\ lastResp' = "5xx"
    /\ UNCHANGED <<upstream, use_db, force_redownload, run, walk, force, page, offset,
                   extra, posts_data, pi, dl_tasks, retry, lastReq, total, completed,
                   ledger, disk, complete, opened, listReqs, listErr,
                   all_links, post_links, saved, sidecars>>
    /\ UNCHANGED pureVars

Resend ==
    /\ pc = "sleep"
    /\ pc' = "next"
    /\ lastReq' = NextReq(offset, BACKOFF)
    /\ UNCHANGED <<upstream, use_db, force_redownload, run, walk, force, page, offset,
                   extra, posts_data, pi, dl_tasks, retry, lastResp, total, completed,
                   ledger, disk, complete, opened, listReqs, listErr,
                   all_links, post_links, saved, sidecars>>
    /\ UNCHANGED pureVars

InitRetry == PipeIdle /\ PureIdle

NextRetry ==
    \/ Next
    \/ ServerErrorAgain
    \/ Resend

\* the process keeps taking steps while it has one to take
SpecRetry == InitRetry /\ [][NextRetry]_vars /\ WF_vars(NextRetry)

\* handle_posts on every page of at most MaxPosts posts, each with or without
\* a signedQuery of its own, called with the signed_query of the user record
SignedQueries == {"?a", "?b"}
UserQueries == {"?t", "?u"}

InitSq ==
    /\ PipeIdle /\ MainIdle
    /\ BvIdle /\ TextIdle /\ LinksIdle /\ KeysIdle /\ NameIdle /\ called = FALSE
    /\ user_sq \in UserQueries
    /\ post_sq \in UNION {[1..n -> SignedQueries \cup {None}] : n \in 1..MaxPosts}
    /\ signed_query = user_sq
    /\ used_sq = << >>

\* one iteration of "for post in posts": "if _sq := post.get("signedQuery"):
\* signed_query = _sq" assigns the parameter itself, and the partials of the
\* post are built with it
TakeSignedQuery ==
    /\ Len(used_sq) < Len(post_sq)
    /\ LET _sq == post_sq[Len(used_sq) + 1]
           sq == IF _sq # None THEN _sq ELSE signed_query
       IN  /\ signed_query' = sq
           /\ used_sq' = Append(used_sq, sq)
    /\ UNCHANGED <<user_sq, post_sq>>
    /\ UNCHANGED <<pipeVars, mainVars, bvVars, textVars, linkVars, keyVars, nameVars, called>>

NextSq == TakeSignedQuery

SpecSq == InitSq /\ [][NextSq]_vars

(* ------------------------------- claims ------------------------------- *)
\* C1 (as stated): with a ledger configured, a key is in the ledger if and only
\* if the bytes of its asset were written to the end in this or a prior run.
C1_LedgerIffWritten == use_db => ledger = complete

\* C1 (amended): with a ledger configured, a key is in the ledger only if the
\* bytes of its asset were written to the end in this or a prior run, and a
\* handler that wrote the body to the end has recorded the key unless its INSERT
\* raised a backing-store error.
C1_LedgerOnlyIfWritten ==
    use_db =>
        /\ ledger \subseteq complete
        /\ \A e \in Entries :
              (opened = e /\ disk[e] = "full" /\ lastResp = "ok") => e \in ledger
        /\ \A e \in Entries :
              (opened = e /\ disk[e] # "full") => lastResp \in {"trunc", "nocl"}

\* one key recorded after a whole body, another asset left partial without a
\* key, in a second run
C1_Witness ==
    /\ use_db /\ run = 2
    /\ \E e \in ledger : disk[e] = "full"
    /\ \E f \in Entries \ ledger : disk[f] = "partial" /\ opened = f

\* C2 (as stated): with the ledger enabled and force_redownload off, a later run
\* opens for writing no asset file that an earlier run downloaded completely.
C2_NoRedundantWrite ==
    [][(run >= 2 /\ use_db /\ ~force_redownload /\ pc = "stream"
            /\ opened' # NoEntry)
        => opened' \notin complete]_vars

\* C2 (amended): with the ledger enabled and force_redownload off, a later run
\* opens for writing no asset file whose key the ledger holds, unless the lookup
\* of that key raised a backing-store error (fail open).
C2_NoWriteOfRecorded ==
    [][(use_db /\ ~force_redownload /\ pc = "stream" /\ opened' # NoEntry
            /\ opened' \in ledger)
        => lastReq.failopen]_vars

\* the second run has skipped a recorded asset
C2_Witness ==
    /\ run = 2 /\ use_db /\ ~force_redownload
    /\ lastResp = "indb"
    /\ ledger # {}

\* C3: when every listing answer of the walk is a success and isLast is first
\* set on page N, exactly N listing requests are issued, and none after the
\* answer that carried isLast.
C3_Pagination ==
    /\ extra.isLast => pc \notin {"first", "next"}
    /\ (extra.isLast /\ ~listErr) => extra.offset = Offset(listReqs)
    /\ (walk = "last") => extra.isLast
    /\ (walk = "running" /\ ~listErr /\ pc \in {"first", "next"}) => listReqs = page

\* a walk of three pages that ended on the last page after three requests
C3_Witness == walk = "last" /\ ~listErr /\ listReqs = 3 /\ page = 4

\* C4: a request for page N+1, and each retry of it, carries the extra.offset
\* of the answer of page N; the request for page 1 carries no offset.
C4_Cursor ==
    /\ pc = "first" => lastReq.kind = "first" /\ lastReq.offset = NoOffset
    /\ pc = "next" =>
          /\ lastReq.kind = "next"
          /\ lastReq.offset = extra.offset
          /\ ServerPage(lastReq.offset) = page
          /\ page >= 2

\* page 3 is requested a third time, after two server-class errors
C4_Witness == pc = "next" /\ page = 3 /\ retry = 2 /\ lastReq.offset = Offset(2)

\* C5: after a server-class error the same request is issued again, after the
\* 5-second backoff, with no other request in between, and the run goes on with
\* the settings it had.
C5_SameRequestRetried ==
    [][(retry' = retry + 1)
        => /\ lastReq'.kind = lastReq.kind
           /\ lastReq'.offset = lastReq.offset
           /\ lastReq'.entry = lastReq.entry
           /\ lastReq'.waited = BACKOFF
           /\ force' = force]_vars

\* C6: a listing request answered with a non-success that is no server-class
\* error ends the walk: archive_user returns, the refused listing request stays
\* the last request of the run, and the process has not crashed.
C6_ListingAbort ==
    /\ (lastResp = "fail" /\ lastReq.kind \in {"first", "next"})
            => (walk = "aborted" /\ pc = "done")
    /\ walk = "aborted"
            => /\ pc = "done"
               /\ lastReq.kind \in {"first", "next"}
               /\ lastResp = "fail"
               /\ opened = NoEntry

\* page 2 refused after the assets of page 1 were handled
C6_Witness == walk = "aborted" /\ lastReq.kind = "next" /\ page = 2 /\ completed = 1

\* C7: a download that ends with a non-success, non-server-error response or a
\* transport failure ends that handler only: the ledger is left as it was and
\* the task loop goes on with the next task of the post.
C7_AssetAbortOnly ==
    [][(pc = "stream" /\ lastResp' \in {"fail", "transport", "trunc"})
        => /\ ledger' = ledger
           /\ complete' = complete
           /\ pc' = "tasks"
           /\ dl_tasks' = Tail(dl_tasks)
           /\ walk' = "running"
           /\ <<posts_data, pi, page, extra>>' = <<posts_data, pi, page, extra>>]_vars

\* after a failed download the next task of the same post has issued its request
C7_Witness ==
    /\ pc = "stream" /\ lastResp = "pending"
    /\ lastReq.entry = Entry(User, 1, 1)
    /\ disk[Entry(User, 1, 0)] = "partial"
    /\ run = 1

\* the file the skip check of a task looks for is there: expected size for file
\* and audio, more than zero bytes for video
OnDiskAsExpected(t) ==
    /\ t.present
    /\ \/ /\ t.handler \in {"handle_file", "handle_audio"}
          /\ disk[TaskEntry(t)] = "full"
       \/ /\ t.handler = "handle_video"
          /\ disk[TaskEntry(t)] \in {"partial", "full"}

\* C8: without a ledger and with force_redownload off, an asset whose file is
\* already there (expected size for file and audio, non-empty for video) is
\* skipped: nothing is written.
C8_SkipWithoutLedger ==
    [][(~use_db /\ ~force_redownload /\ pc \in {"tasks", "stream"}
            /\ dl_tasks # << >> /\ OnDiskAsExpected(Head(dl_tasks)))
        => (opened' = NoEntry /\ disk' = disk)]_vars

\* C9: a content item of any variant whose record lacks its size/dimension
\* metadata is skipped without error: the run does not fail on it, and its task
\* returns without a ledger lookup, a request or a write.
C9_DeletedSkipped ==
    [][/\ (pc = "posts") => (pc' # "crashed")
       /\ (pc = "tasks" /\ dl_tasks # << >> /\ ~Head(dl_tasks).present)
            => /\ pc' = "tasks"
               /\ dl_tasks' = Tail(dl_tasks)
               /\ lastResp' = "deleted"
               /\ <<lastReq, ledger, disk>>' = <<lastReq, ledger, disk>>
               /\ opened' = NoEntry]_vars

\* the positions in VIDEO_QUALITY_ORDER of the keys of a mapping
ListedIn(us) == {i \in 1..Len(VIDEO_QUALITY_ORDER) : VIDEO_QUALITY_ORDER[i] \in DOMAIN us}

\* C10: best_video returns the first label of the fixed order that is a key of
\* the mapping, with its URL; labels outside the order neither win nor block;
\* with no listed key it returns the no-selection value.
C10_BestVideo ==
    sel # << >> =>
        IF ListedIn(urls) = {}
        THEN sel = <<None, None>>
        ELSE \E i \in ListedIn(urls) :
                /\ \A j \in ListedIn(urls) : i <= j
                /\ sel = <<VIDEO_QUALITY_ORDER[i], urls[VIDEO_QUALITY_ORDER[i]]>>

\* {hls, low, medium} gives medium, with its URL
C10_Witness ==
    /\ DOMAIN urls = {"hls", "low", "medium"}
    /\ urls["medium"] = "A" /\ urls["low"] = "B"
    /\ sel = <<"medium", "A">>

\* C11: every pending request of handle_video goes to the primary host of the
\* selected rendition URL while its retry count is below 5 or no failover host
\* is known, and to the failover host once the count has reached 5 and a
\* failover host is known.
C11_Failover ==
    (pc = "stream" /\ Head(dl_tasks).handler = "handle_video")
        => lastReq.host = IF retry >= FAILOVER_RETRY /\ Head(dl_tasks).failover_host # None
                          THEN Head(dl_tasks).failover_host
                          ELSE "primary"

\* C15: after a walk that ended by reaching the last page, if a link was
\* collected then the link report was written in this run and holds every
\* collected link.
C15_ReportPersisted ==
    (walk = "last" /\ all_links # << >>)
        => /\ saved
           /\ \A i \in 1..Len(all_links) : all_links[i] \in post_links

\* C18: a post with hasAccess = false is skipped whole: the step that handles it
\* writes no text file, collects no link, builds no download task, issues no
\* request, takes exactly one off ctx.total, leaves the completed-posts counter
\* alone and goes on with the next post of the page.
C18_NoAccessSkipped ==
    [][(pc = "posts" /\ pi <= Len(posts_data) /\ ~posts_data[pi].hasAccess)
        => /\ total' = total - 1
           /\ completed' = completed
           /\ pc' = "posts"
           /\ pi' = pi + 1
           /\ dl_tasks' = << >>
           /\ <<sidecars, all_links, lastReq, disk, ledger>>'
                = <<sidecars, all_links, lastReq, disk, ledger>>]_vars

\* on page 1 the post without access was skipped and the post after it was
\* handled to its end
C18_Witness ==
    /\ page = 1 /\ pc = "posts" /\ pi = 3
    /\ total = 1 /\ completed = 1
    /\ sidecars = {1}

\* the content of item d decodes to an array whose first element is a string
WellFormed(d) ==
    /\ d.content.kind = "array"
    /\ d.content.elems # << >>
    /\ d.content.elems[1].t = "str"

\* the decoded body of a well-formed item
Body(d) == d.content.elems[1].s

RECURSIVE BlockEndText(_, _)
\* the concatenation, in input order and without separators, of: a line break
\* for a Text whose modifier is BLOCK_END, the body for any other Text, the
\* target for a Link with a non-empty body, nothing for a Link with an empty one
BlockEndText(items, i) ==
    IF i > Len(items)
    THEN << >>
    ELSE (IF items[i].type = "link"
          THEN IF Body(items[i]) # << >> THEN items[i].url ELSE << >>
          ELSE IF items[i].modificator = "BLOCK_END" THEN <<LF>> ELSE Body(items[i]))
         \o BlockEndText(items, i + 1)

\* C12: on items with well-formed content clear_post_text returns the
\* concatenation in which a Text contributes a line break exactly when its
\* modifier is BLOCK_END and its body otherwise.
C12_BlockEnd ==
    (text_out # Unset /\ \A i \in 1..Len(post_text) : WellFormed(post_text[i]))
        => text_out = Returns(Str(BlockEndText(post_text, 1)))

\* the decoded body of a link is empty: its content is "", is not JSON, is an
\* empty array or has the empty string as first element
Hidden(d) ==
    \/ d.content.kind \in {"falsy", "undecodable"}
    \/ d.content.kind = "array" /\ d.content.elems = << >>
    \/ d.content.kind = "array" /\ d.content.elems # << >>
            /\ d.content.elems[1] = Str(<< >>)

\* C13: whenever clear_post_text returns, its result is what it returns for the
\* items before a Link, then the Link's target if the Link's decoded body is not
\* empty and nothing at all if it is, then what it returns for the items after it.
C13_LinkContribution ==
    (text_out # Unset /\ ~text_out.raises)
        => \A i \in 1..Len(post_text) :
              post_text[i].type = "link"
                => text_out.value.s =
                        clear_post_text(SubSeq(post_text, 1, i - 1)).value.s
                        \o (IF Hidden(post_text[i]) THEN << >> ELSE post_text[i].url)
                        \o clear_post_text(SubSeq(post_text, i + 1, Len(post_text))).value.s

\* [Text("Hi", ""), hidden Link] gives "Hi"
C13_Witness ==
    /\ Len(post_text) = 2
    /\ post_text[1] = [type |-> "text", content |-> [kind |-> "array", elems |-> <<Str(<<"H", "i">>)>>],
                       modificator |-> ""]
    /\ post_text[2].type = "link" /\ Hidden(post_text[2])
    /\ text_out = Returns(Str(<<"H", "i">>))

\* C14: parse_text returns a string for every content string and never raises,
\* and clear_post_text, which handle_posts calls outside any try block, never
\* raises either.
C14_ParseTextTotal ==
    /\ parsed # Unset => (~parsed.raises /\ parsed.value.t = "str")
    /\ text_out # Unset => ~text_out.raises

\* C16: the written link report holds no row twice.
C16_NoDuplicateRows ==
    written
        => \A i, j \in 1..Len(new_rows) : new_rows[i] = new_rows[j] => i = j

RECURSIVE LexLeq(_, _)
\* a precedes or equals b in the lexicographic order of digit strings
LexLeq(a, b) ==
    \/ a = << >>
    \/ /\ a # << >> /\ b # << >>
       /\ \/ Ord(a[1]) < Ord(b[1])
          \/ a[1] = b[1] /\ LexLeq(Tail(a), Tail(b))

\* C17: the rows of the written report ascend by the post sequence number
\* compared as a string.
C17_SortedByPidString ==
    written
        => \A i, j \in 1..Len(new_rows) : i < j => LexLeq(new_rows[i][1], new_rows[j][1])

\* a collected row of post 2 and a file row of post 10: "10" is written first
C17_Witness ==
    /\ written
    /\ run_links = << <<<<"2">>, "p", "lX">> >>
    /\ old_lines = << WriteLine(<<<<"1", "0">>, "p", "lY">>) >>
    /\ new_rows = << <<<<"1", "0">>, "p", "lY">>, <<<<"2">>, "p", "lX">> >>

\* C19: all four handlers derive the same key for a triple, the same triple
\* gives the same key again, and two triples that differ in any component give
\* different keys.
C19_IdentityKey ==
    called =>
        /\ \A h, g \in Handlers : keys[h] = keys[g]
        /\ \A h \in Handlers :
              (keys[h][1] = keys[h][2]) <=> (key_args[1] = key_args[2])

\* the users "a_1" and "a", whose keys agree up to the second separator
C19_Witness ==
    /\ called
    /\ key_args[1] = <<<<"a", "_", "1">>, 11, 1>>
    /\ key_args[2] = <<<<"a">>, 1, 11>>
    /\ keys["handle_video"][1] # keys["handle_file"][2]

\* C20: the result of clear_filename has no whitespace at either end and no dot
\* at its end, and clear_filename leaves its own result as it is.
C20_Trimmed ==
    called =>
        /\ cleared # << >> =>
              /\ Head(cleared) # " "
              /\ cleared[Len(cleared)] \notin {" ", "."}
        /\ cleared_again = cleared

\* C21: the result of clear_filename holds no control character of the range
\* 0x00-0x1F and none of the forbidden characters.
C21_NoControlNoForbidden ==
    called => \A i \in 1..Len(cleared) : cleared[i] \notin {CTRL, ESC, SOLIDUS}

\* an input of a supported form, with the credentials there
SupportedUrls == {BareName, BoostyUrl}
Accepted(i) == inputs[i] \in SupportedUrls /\ cookies_exist /\ token_known

\* C22: for an input of an unsupported URL form, or with the cookies or token
\* file missing, no request is issued, and when main is through its list every
\* other input has been archived.
C22_PreconditionAbort ==
    /\ \A r \in requested : Accepted(r[1])
    /\ (stage = "returned" /\ at = Len(inputs)) =>
           \A i \in 1..Len(inputs) : Accepted(i) => \E r \in requested : r[1] = i

\* C24: under every output root, the assets, the text sidecars and the link
\* report of a user are written under the directory archive_user created for
\* that user.
C24_OneUserDirectory == \A f \in files : f.dir = OutputPath(f.user)

\* C23: a later listing request that is being retried after server-class errors
\* is given up after finitely many attempts: the walk moves on or stops, even
\* when the server answers every attempt with a server-class error.
C23_BoundedRetry == (pc = "next" /\ retry = MaxRetry) ~> (pc \notin {"next", "sleep"})

\* the download items of a post, in item order
IsDownload(type) == type \in DownloadTypes
DownloadItems(post) == SelectSeq(post.data, IsDownload)

\* C25: while the tasks of a post run, the k-th download item of the post
\* (file, image, video, audio; text, link and unrecognized items not counted)
\* has the task of its handler with index k-1, and the keys of the tasks of
\* the post are pairwise distinct.
C25_SequenceIndex ==
    pc \in {"tasks", "stream"} =>
        LET items == DownloadItems(posts_data[pi])
            done == Len(items) - Len(dl_tasks)
        IN  /\ done >= 0
            /\ \A j \in 1..Len(dl_tasks) :
                  /\ dl_tasks[j].incremental_id = done + j - 1
                  /\ dl_tasks[j].handler = HandlerOf(items[done + j])
                  /\ dl_tasks[j].int_id = posts_data[pi].int_id
            /\ \A j, k \in 1..Len(dl_tasks) :
                  j # k => TaskEntry(dl_tasks[j]) # TaskEntry(dl_tasks[k])

\* a post with a text item, a download item, a link item and a download item:
\* its two tasks have the indexes 0 and 1
C25_Witness ==
    /\ pc = "tasks"
    /\ Len(posts_data[pi].data) = 4
    /\ Len(dl_tasks) = 2
    /\ dl_tasks[1].incremental_id = 0
    /\ dl_tasks[2].incremental_id = 1

\* C26: while a task of a post runs, the text of the post (when it has one) is
\* in its sidecar file, the pending request is that of the first task left,
\* the tasks left stand in item order, and no task is left when the next post
\* is classified or the next page requested.
C26_PostOrdering ==
    /\ pc \in {"tasks", "stream"} =>
          (HasText(posts_data[pi]) => posts_data[pi].int_id \in sidecars)
    /\ pc = "stream" =>
          /\ dl_tasks # << >>
          /\ lastReq.kind = "asset"
          /\ lastReq.entry = TaskEntry(Head(dl_tasks))
    /\ \A j, k \in 1..Len(dl_tasks) :
          j < k => dl_tasks[j].incremental_id < dl_tasks[k].incremental_id
    /\ pc \in {"idle", "user", "first", "posts", "next", "done"} => dl_tasks = << >>

\* the second task of a post with text is being retried after the first task
\* has written its file
C26_Witness ==
    /\ pc = "stream"
    /\ retry > 0
    /\ HasText(posts_data[pi])
    /\ Len(dl_tasks) = 1
    /\ Head(dl_tasks).incremental_id = 1
    /\ disk[Entry(User, posts_data[pi].int_id, 0)] = "full"

\* the listed labels for which a video task has a URL that is not empty
Selectable(t) ==
    {i \in 1..Len(VIDEO_QUALITY_ORDER) :
        /\ VIDEO_QUALITY_ORDER[i] \in DOMAIN t.urls
        /\ t.urls[VIDEO_QUALITY_ORDER[i]] # ""}

\* C27: a video task ends as "no selection" exactly when no listed label has a
\* URL that is not empty; the step issues no request, writes no file, records
\* nothing and goes on with the next task; a request for a video is for the
\* URL of the first listed label that has one.
C27_NoSelection ==
    [][ /\ (dl_tasks' # dl_tasks /\ lastResp' = "noquality") =>
              /\ Head(dl_tasks).handler = "handle_video"
              /\ Selectable(Head(dl_tasks)) = {}
              /\ lastReq' = lastReq
              /\ disk' = disk
              /\ ledger' = ledger
              /\ pc' = "tasks"
              /\ walk' = walk
        /\ (pc' = "stream" /\ Head(dl_tasks').handler = "handle_video") =>
              LET t == Head(dl_tasks') IN
              /\ Selectable(t) # {}
              /\ \E i \in Selectable(t) :
                    /\ \A j \in Selectable(t) : i <= j
                    /\ lastReq'.url = t.urls[VIDEO_QUALITY_ORDER[i]]
      ]_vars

\* a video without a listed rendition was passed over and the task of the
\* next item of the post is still to run
C27_Witness ==
    /\ lastResp = "noquality"
    /\ pc = "tasks"
    /\ Len(dl_tasks) = 1
    /\ disk = [e \in Entries |-> "none"]

\* C28: no ledger error ends the run: a task is passed over as recorded only
\* when its key is in the ledger (an error of the lookup counts as not
\* recorded), an error of the insert leaves the file whole and the task loop
\* going, and inserting a key that is there changes nothing.
C28_LedgerErrorsNotFatal ==
    [][ /\ (dl_tasks' # dl_tasks /\ lastResp' = "indb") =>
              TaskEntry(Head(dl_tasks)) \in ledger
        /\ (pc = "stream" /\ opened' # NoEntry /\ disk'[opened'] = "full") =>
              /\ pc' = "tasks"
              /\ walk' = walk
              /\ ledger' \in {ledger, ledger \cup {opened'}}
      ]_vars

\* C29 (without a ledger): a handler decides that its asset is already on disk
\* only before it issues a request for it, never with its request answered.
C29_SkipBeforeStream ==
    [][(~use_db /\ dl_tasks' # dl_tasks /\ lastResp' \in {"ondisk", "skipped"})
          => pc = "tasks"]_vars

\* C30: the completed posts never exceed ctx.total; a page adds the number of
\* its posts to ctx.total before its first post is handled; a post without
\* access takes one off ctx.total; a post with access adds one to the
\* completed posts, once, when its task loop is through; at the end of a walk
\* that reached the last page the two are equal.
C30_ProgressTotals ==
    [][ /\ completed' <= total'
        /\ (pc \in {"first", "next"} /\ pc' = "posts") =>
              /\ total' = total + Len(posts_data')
              /\ completed' = completed
              /\ pi' = 1
        /\ (pc = "posts" /\ pi' # pi) =>
              /\ ~posts_data[pi].hasAccess
              /\ total' = total - 1
              /\ completed' = completed
        /\ (pc = "tasks" /\ pc' = "posts") =>
              /\ posts_data[pi].hasAccess
              /\ dl_tasks = << >>
              /\ completed' = completed + 1
              /\ total' = total
              /\ pi' = pi + 1
        /\ (run' = run /\ completed' # completed) => (pc = "tasks" /\ pc' = "posts")
        /\ (run' = run /\ total' # total) =>
              \/ pc \in {"first", "next"} /\ pc' = "posts"
              \/ pc = "posts" /\ pi' # pi
        /\ walk' = "last" => completed' = total'
      ]_vars

\* a walk over three pages ended at the last page with the three posts the
\* user has access to completed and the post without access taken off
C30_Witness ==
    /\ walk = "last"
    /\ pc = "done"
    /\ page > 2
    /\ completed = 3
    /\ total = 3

\* C31: with force_redownload given to archive_user, the task of every item
\* that is not deleted and has a usable URL issues its request, and no task
\* ends by finding its asset in the ledger or on disk, also after the user
\* request or the first listing request was retried.
C31_ForceGoverns ==
    [][force_redownload =>
          /\ (pc = "tasks" /\ dl_tasks # << >> /\ Head(dl_tasks).present
                /\ (Head(dl_tasks).handler = "handle_video" => ~NoSelection(Head(dl_tasks))))
                => pc' = "stream"
          /\ (dl_tasks' # dl_tasks) => lastResp' \notin {"indb", "ondisk", "skipped"}
      ]_vars

\* C32: the tasks of a post are built with the signedQuery of the post when it
\* has one and with the signed query of the user record otherwise, whatever
\* posts stand before it in the page.
C32_SignedQueryScoped ==
    \A i \in 1..Len(used_sq) :
        used_sq[i] = IF post_sq[i] # None THEN post_sq[i] ELSE user_sq

\* C33: without a ledger and with force_redownload off, a task whose target
\* holds the partial file of a download that broke off is not passed over as
\* already on disk: when its request is answered with the whole body, the file
\* is written again from byte zero.
C33_TruncatedRecovered ==
    [][(~use_db /\ ~force_redownload /\ pc \in {"tasks", "stream"}
          /\ dl_tasks # << >> /\ dl_tasks' # dl_tasks
          /\ Head(dl_tasks).present
          /\ disk[TaskEntry(Head(dl_tasks))] = "partial")
        => /\ lastResp' \notin {"ondisk", "skipped"}
           /\ lastResp' = "ok" => (opened' = TaskEntry(Head(dl_tasks))
                                    /\ disk'[TaskEntry(Head(dl_tasks))] = "full")
      ]_vars

\* C34: every row that an earlier run wrote to the link report, also one whose
\* link url is the empty string, is a row of the report a later run writes.
C34_ReportRoundTrip ==
    written =>
        \A row \in LinkRows \cup {EmptyUrlRow} :
            (\E i \in 1..Len(old_lines) : old_lines[i] = WriteLine(row))
                => \E j \in 1..Len(new_rows) : new_rows[j] = row

\* C35: a success response without a body for an image or a video, or without
\* a Content-Length header for any asset, ends the task of that asset only:
\* the handler returns, the key is not recorded, the walk stands as it stood
\* and the task loop goes on.
C35_BadResponseOneAsset ==
    [][(pc = "stream" /\ lastResp' \in {"nocl", "empty"})
        => /\ pc' = "tasks"
           /\ dl_tasks' = Tail(dl_tasks)
           /\ ledger' = ledger
           /\ walk' = walk]_vars

====
